---- MODULE Spec2Model ----
(***************************************************************************)
(* Model of smol/utils/darknet.py: loading a Darknet weights file into the *)
(* tensors of a model made of ConvLayer children.                          *)
(*                                                                         *)
(* A tensor is modelled by its flat, row-major data (a sequence): the code *)
(* uses a tensor's shape only through numel() and view_as(), which keeps   *)
(* the flat order.  A float32 / int32 word of the file is an abstract      *)
(* value; copy_() between float32 tensors moves it unchanged.              *)
(***************************************************************************)
EXTENDS Integers, Sequences, FiniteSets, TLC

\* ------------------------------------------------------------------ bounds
\* Largest number of direct children of the model.
MaxLayers == 2
\* Largest payload length (in float32 words) of an arbitrary file.
MaxW == 10

\* ------------------------------------------------------- program constants
\* np.fromfile(f, count=5, dtype=np.int32): the header's word count.
HeaderCount == 5
\* Item size in bytes of np.int32 and np.float32.
WordBytes == 4

Min(a, b) == IF a < b THEN a ELSE b

\* ------------------------------------------------------------ the tensors
\* nn.Parameter tensors of a module (requires_grad applies to these).
ParamNames == {"conv_weight", "conv_bias", "norm_weight", "norm_bias", "other"}
\* Buffers of a BatchNorm2d.
StatNames == {"running_mean", "running_var"}
TensorNames == ParamNames \cup StatNames

\* A tensor of n elements, all equal to v.
Fill(n, v) == [i \in 1..n |-> v]

\* Element counts of the tensors of a module: cw conv.weight, cb conv.bias,
\* nc each of the four BatchNorm2d tensors, ot parameters of anything else
\* the module holds (a Linear, a nested convolution, ...).
Sizes(cw, cb, nc, ot) ==
    [n \in TensorNames |->
        CASE n = "conv_weight" -> cw
          [] n = "conv_bias" -> cb
          [] n = "other" -> ot
          [] OTHER -> nc]

\* ConvLayer(batch_norm=True) with c output channels and k weights per
\* channel; hasBias: the Conv2d was built with a bias of its own.
NormConv(c, k, hasBias, grad) ==
    [kind |-> "ConvLayer", batch_norm |-> TRUE,
     size |-> Sizes(c * k, IF hasBias THEN c ELSE 0, c, 0),
     requires_grad |-> IF grad THEN ParamNames ELSE {}]

\* ConvLayer(batch_norm=False): a Conv2d with a bias and no BatchNorm2d
\* (_load_conv reads module.conv.bias, so the bias exists).
PlainConv(c, k, grad) ==
    [kind |-> "ConvLayer", batch_norm |-> FALSE,
     size |-> Sizes(c * k, c, 0, 0),
     requires_grad |-> IF grad THEN ParamNames ELSE {}]

\* Any child that is no ConvLayer, with p parameter elements of its own or of
\* its descendants and, when c > 0, a BatchNorm2d of c features below it.
OtherLayer(p, c) ==
    [kind |-> "Other", batch_norm |-> FALSE,
     size |-> Sizes(0, 0, c, p),
     requires_grad |-> ParamNames]

\* The structures a direct child of the model is drawn from.
LayerShapes ==
    {NormConv(1, 2, FALSE, TRUE), NormConv(2, 1, FALSE, TRUE),
     NormConv(1, 2, TRUE, TRUE), NormConv(1, 2, FALSE, FALSE),
     PlainConv(1, 2, TRUE), PlainConv(2, 1, TRUE), PlainConv(1, 2, FALSE),
     OtherLayer(0, 0), OtherLayer(2, 0), OtherLayer(0, 1)}

\* Values the tensors of a freshly built model hold.
InitVals == {0, -1}

\* A module of structure s whose tensors all hold v.
NewModule(s, v) ==
    [kind |-> s.kind, batch_norm |-> s.batch_norm,
     requires_grad |-> s.requires_grad,
     data |-> [n \in TensorNames |-> Fill(s.size[n], v)]]

\* model.named_children(): the ordered direct children.
Structures == UNION {[1..n -> LayerShapes] : n \in 0..MaxLayers}

NewModel(st, v) == [i \in 1..Len(st) |-> NewModule(st[i], v)]

\* --------------------------------------------------------------- the file
\* A file is its length in bytes and its whole 4-byte words, in order.
HeaderBases == {0, 50}

\* Word i of a generated file: header words hb + i, payload words 1, 2, ...
\* (pairwise different, so that every misplaced element shows).
GenWords(nwords, hb) ==
    [i \in 1..nwords |-> IF i <= HeaderCount THEN hb + i ELSE i - HeaderCount]

\* Files shorter than a header.
ShortBytes == {0, 3, 10, 16, 19}
\* Bytes after the last whole word.
TailBytes == {0, 3}

FileSizes ==
    ShortBytes \cup
    {HeaderCount * WordBytes + w * WordBytes + t : w \in 0..MaxW, t \in TailBytes}

Files ==
    {[nbytes |-> n, words |-> GenWords(n \div WordBytes, hb)] :
        n \in FileSizes, hb \in HeaderBases}

\* ------------------------------------------------------------- the writer
\* A model whose tensor elements are pairwise different: element e of tensor n
\* of child i holds 100 * i + 10 * TensorId(n) + e.
TensorId(n) ==
    CASE n = "conv_weight" -> 1 [] n = "conv_bias" -> 2
      [] n = "norm_weight" -> 3 [] n = "norm_bias" -> 4
      [] n = "running_mean" -> 5 [] n = "running_var" -> 6
      [] OTHER -> 7

SourceModule(s, i) ==
    [kind |-> s.kind, batch_norm |-> s.batch_norm,
     requires_grad |-> s.requires_grad,
     data |-> [n \in TensorNames |->
                 [e \in 1..s.size[n] |-> 100 * i + 10 * TensorId(n) + e]]]

SourceModel(st) == [i \in 1..Len(st) |-> SourceModule(st[i], i)]

\* What the format holds for one child: for a normalized convolution layer
\* the normalization bias, weight, running mean, running variance, then the
\* convolution weight; for a plain one the convolution bias, then the
\* convolution weight; nothing for any other child.
WriteLayer(m) ==
    IF m.kind # "ConvLayer" THEN <<>>
    ELSE IF m.batch_norm
         THEN m.data["norm_bias"] \o m.data["norm_weight"]
              \o m.data["running_mean"] \o m.data["running_var"]
              \o m.data["conv_weight"]
         ELSE m.data["conv_bias"] \o m.data["conv_weight"]

RECURSIVE WritePayload(_, _)
WritePayload(ms, i) ==
    IF i > Len(ms) THEN <<>> ELSE WriteLayer(ms[i]) \o WritePayload(ms, i + 1)

\* The file an external writer produces for model ms: the five header words,
\* then the children in traversal order.
WriteDarknet(ms, hb) ==
    LET words == GenWords(HeaderCount, hb) \o WritePayload(ms, 1)
    IN  [nbytes |-> Len(words) * WordBytes, words |-> words]

VARIABLES
    file,       \* the bytes at weights_path
    model,      \* the model's direct children and their tensors
    model0,     \* the model as it was when load_darknet_weights was called
    pc,         \* where load_darknet_weights is
    header,     \* the int32 array read first
    weights,    \* the remaining float32 array
    idx,        \* the child the loop is at
    success,    \* the returned flag
    err,        \* the exception raised, "none" if none
    source,     \* the model the file was written from (<<>> if from none)
    first       \* <<outcome>> of an earlier call on the same model, or <<>>

vars == <<file, model, model0, pc, header, weights, idx, success, err, source,
          first>>

\* ------------------------------------------------------------ darknet_numel
\* Mutant: the requires_grad filter is dropped.
GradNumel_All(m, n) == Len(m.data[n])

\* p.numel() if p.requires_grad, for parameter n of module m.
GradNumel(m, n) == IF n \in m.requires_grad THEN Len(m.data[n]) ELSE 0

\* Mutant: the running statistics are not counted.
ModuleNumel_ParamsOnly(m) ==
    GradNumel(m, "conv_weight") + GradNumel(m, "conv_bias")
    + GradNumel(m, "norm_weight") + GradNumel(m, "norm_bias")
    + GradNumel(m, "other")

\* What one module (with everything below it) adds to darknet_numel.
ModuleNumel(m) ==
    GradNumel(m, "conv_weight") + GradNumel(m, "conv_bias")
    + GradNumel(m, "norm_weight") + GradNumel(m, "norm_bias")
    + GradNumel(m, "other")
    + Len(m.data["running_mean"]) + Len(m.data["running_var"])

RECURSIVE SumNumel(_, _)
SumNumel(ms, i) == IF i > Len(ms) THEN 0 ELSE ModuleNumel(ms[i]) + SumNumel(ms, i + 1)

darknet_numel(ms) == SumNumel(ms, 1)

\* ------------------------------------------------------------ the slicing
\* weights[:n]
Take(w, n) == SubSeq(w, 1, Min(n, Len(w)))
\* weights[n:]
Drop(w, n) == SubSeq(w, Min(n, Len(w)) + 1, Len(w))
\* Mutant: the slice is copied without a shape check.
ViewAs_Unchecked(s, t) == TRUE

\* torch.from_numpy(s).view_as(t) succeeds iff the element counts agree.
ViewAs(s, t) == Len(s) = Len(t)

\* The result of loading one child: ok FALSE when view_as raised (the caller's
\* array is not reassigned; the module is as the function left it), else the
\* remaining array and the module as written.
Raised(w, m) == [ok |-> FALSE, weights |-> w, module |-> m]
Loaded(w, m) == [ok |-> TRUE, weights |-> w, module |-> m]

\* Mutant: each slice is copied into its tensor as soon as it is reshaped, so
\* the tensors copied before view_as raises stay written.
_load_conv_norm_Eager(w, m) ==
    LET d == m.data
        norm_bias == Take(w, Len(d["norm_bias"]))
        w1 == Drop(w, Len(d["norm_bias"]))
        norm_weight == Take(w1, Len(d["norm_weight"]))
        w2 == Drop(w1, Len(d["norm_weight"]))
        norm_mean == Take(w2, Len(d["running_mean"]))
        w3 == Drop(w2, Len(d["running_mean"]))
        norm_var == Take(w3, Len(d["running_var"]))
        w4 == Drop(w3, Len(d["running_var"]))
        conv_weight == Take(w4, Len(d["conv_weight"]))
        w5 == Drop(w4, Len(d["conv_weight"]))
        m1 == [m EXCEPT !.data["norm_bias"] = norm_bias]
        m2 == [m1 EXCEPT !.data["norm_weight"] = norm_weight]
        m3 == [m2 EXCEPT !.data["running_mean"] = norm_mean]
        m4 == [m3 EXCEPT !.data["running_var"] = norm_var]
        m5 == [m4 EXCEPT !.data["conv_weight"] = conv_weight]
    IN  IF ~ViewAs(norm_bias, d["norm_bias"]) THEN Raised(w, m)
        ELSE IF ~ViewAs(norm_weight, d["norm_weight"]) THEN Raised(w, m1)
        ELSE IF ~ViewAs(norm_mean, d["running_mean"]) THEN Raised(w, m2)
        ELSE IF ~ViewAs(norm_var, d["running_var"]) THEN Raised(w, m3)
        ELSE IF ~ViewAs(conv_weight, d["conv_weight"]) THEN Raised(w, m4)
        ELSE Loaded(w5, m5)

\* Mutant: the running variance is sliced from the array the running mean
\* was sliced from, so the two blocks overlap.
_load_conv_norm_Overlap(w, m) ==
    LET d == m.data
        norm_bias == Take(w, Len(d["norm_bias"]))
        w1 == Drop(w, Len(d["norm_bias"]))
        norm_weight == Take(w1, Len(d["norm_weight"]))
        w2 == Drop(w1, Len(d["norm_weight"]))
        norm_mean == Take(w2, Len(d["running_mean"]))
        norm_var == Take(w2, Len(d["running_var"]))
        w4 == Drop(w2, Len(d["running_var"]))
        conv_weight == Take(w4, Len(d["conv_weight"]))
        w5 == Drop(w4, Len(d["conv_weight"]))
    IN  IF /\ ViewAs(norm_bias, d["norm_bias"])
           /\ ViewAs(norm_weight, d["norm_weight"])
           /\ ViewAs(norm_mean, d["running_mean"])
           /\ ViewAs(norm_var, d["running_var"])
           /\ ViewAs(conv_weight, d["conv_weight"])
        THEN Loaded(w5, [m EXCEPT !.data["norm_bias"] = norm_bias,
                                  !.data["norm_weight"] = norm_weight,
                                  !.data["running_mean"] = norm_mean,
                                  !.data["running_var"] = norm_var,
                                  !.data["conv_weight"] = conv_weight])
        ELSE Raised(w, m)

\* Mutant: the normalization weight is taken before the normalization bias.
_load_conv_norm_WeightFirst(w, m) ==
    LET d == m.data
        norm_weight == Take(w, Len(d["norm_weight"]))
        w1 == Drop(w, Len(d["norm_weight"]))
        norm_bias == Take(w1, Len(d["norm_bias"]))
        w2 == Drop(w1, Len(d["norm_bias"]))
        norm_mean == Take(w2, Len(d["running_mean"]))
        w3 == Drop(w2, Len(d["running_mean"]))
        norm_var == Take(w3, Len(d["running_var"]))
        w4 == Drop(w3, Len(d["running_var"]))
        conv_weight == Take(w4, Len(d["conv_weight"]))
        w5 == Drop(w4, Len(d["conv_weight"]))
    IN  IF /\ ViewAs(norm_bias, d["norm_bias"])
           /\ ViewAs(norm_weight, d["norm_weight"])
           /\ ViewAs(norm_mean, d["running_mean"])
           /\ ViewAs(norm_var, d["running_var"])
           /\ ViewAs(conv_weight, d["conv_weight"])
        THEN Loaded(w5, [m EXCEPT !.data["norm_bias"] = norm_bias,
                                  !.data["norm_weight"] = norm_weight,
                                  !.data["running_mean"] = norm_mean,
                                  !.data["running_var"] = norm_var,
                                  !.data["conv_weight"] = conv_weight])
        ELSE Raised(w, m)

_load_conv_norm(w, m) ==
    LET d == m.data
        norm_bias == Take(w, Len(d["norm_bias"]))
        w1 == Drop(w, Len(d["norm_bias"]))
        norm_weight == Take(w1, Len(d["norm_weight"]))
        w2 == Drop(w1, Len(d["norm_weight"]))
        norm_mean == Take(w2, Len(d["running_mean"]))
        w3 == Drop(w2, Len(d["running_mean"]))
        norm_var == Take(w3, Len(d["running_var"]))
        w4 == Drop(w3, Len(d["running_var"]))
        conv_weight == Take(w4, Len(d["conv_weight"]))
        w5 == Drop(w4, Len(d["conv_weight"]))
    IN  IF /\ ViewAs(norm_bias, d["norm_bias"])
           /\ ViewAs(norm_weight, d["norm_weight"])
           /\ ViewAs(norm_mean, d["running_mean"])
           /\ ViewAs(norm_var, d["running_var"])
           /\ ViewAs(conv_weight, d["conv_weight"])
        THEN Loaded(w5, [m EXCEPT !.data["norm_bias"] = norm_bias,
                                  !.data["norm_weight"] = norm_weight,
                                  !.data["running_mean"] = norm_mean,
                                  !.data["running_var"] = norm_var,
                                  !.data["conv_weight"] = conv_weight])
        ELSE Raised(w, m)

\* Mutant: the slices are added to the tensors instead of copied over them.
_load_conv_Accumulate(w, m) ==
    LET d == m.data
        conv_bias == Take(w, Len(d["conv_bias"]))
        w1 == Drop(w, Len(d["conv_bias"]))
        conv_weight == Take(w1, Len(d["conv_weight"]))
        w2 == Drop(w1, Len(d["conv_weight"]))
    IN  IF /\ ViewAs(conv_bias, d["conv_bias"])
           /\ ViewAs(conv_weight, d["conv_weight"])
        THEN Loaded(w2,
                 [m EXCEPT !.data["conv_bias"] =
                               [j \in 1..Len(conv_bias) |->
                                   d["conv_bias"][j] + conv_bias[j]],
                           !.data["conv_weight"] =
                               [j \in 1..Len(conv_weight) |->
                                   d["conv_weight"][j] + conv_weight[j]]])
        ELSE Raised(w, m)

\* Mutant: the convolution weight is sliced from the array the bias was
\* sliced from, so the bias elements are never removed.
_load_conv_Overlap(w, m) ==
    LET d == m.data
        conv_bias == Take(w, Len(d["conv_bias"]))
        conv_weight == Take(w, Len(d["conv_weight"]))
        w2 == Drop(w, Len(d["conv_weight"]))
    IN  IF /\ ViewAs(conv_bias, d["conv_bias"])
           /\ ViewAs(conv_weight, d["conv_weight"])
        THEN Loaded(w2, [m EXCEPT !.data["conv_bias"] = conv_bias,
                                  !.data["conv_weight"] = conv_weight])
        ELSE Raised(w, m)

\* Mutant: the convolution weight is taken before the convolution bias.
_load_conv_WeightFirst(w, m) ==
    LET d == m.data
        conv_weight == Take(w, Len(d["conv_weight"]))
        w1 == Drop(w, Len(d["conv_weight"]))
        conv_bias == Take(w1, Len(d["conv_bias"]))
        w2 == Drop(w1, Len(d["conv_bias"]))
    IN  IF /\ ViewAs(conv_bias, d["conv_bias"])
           /\ ViewAs(conv_weight, d["conv_weight"])
        THEN Loaded(w2, [m EXCEPT !.data["conv_bias"] = conv_bias,
                                  !.data["conv_weight"] = conv_weight])
        ELSE Raised(w, m)

_load_conv(w, m) ==
    LET d == m.data
        conv_bias == Take(w, Len(d["conv_bias"]))
        w1 == Drop(w, Len(d["conv_bias"]))
        conv_weight == Take(w1, Len(d["conv_weight"]))
        w2 == Drop(w1, Len(d["conv_weight"]))
    IN  IF /\ ViewAs(conv_bias, d["conv_bias"])
           /\ ViewAs(conv_weight, d["conv_weight"])
        THEN Loaded(w2, [m EXCEPT !.data["conv_bias"] = conv_bias,
                                  !.data["conv_weight"] = conv_weight])
        ELSE Raised(w, m)

\* isinstance(module, ConvLayer)
IsConvLayer(m) == m.kind = "ConvLayer"

\* Mutant: a child that is no ConvLayer skips as many elements as it has
\* parameters.
load_child_OtherConsumes(w, m) ==
    IF IsConvLayer(m)
    THEN IF m.batch_norm THEN _load_conv_norm(w, m) ELSE _load_conv(w, m)
    ELSE Loaded(Drop(w, Len(m.data["other"])), m)

\* The body of the loop over named_children() for one child.
load_child(w, m) ==
    IF IsConvLayer(m)
    THEN IF m.batch_norm THEN _load_conv_norm(w, m) ELSE _load_conv(w, m)
    ELSE Loaded(w, m)

\* ---------------------------------------------------- load_darknet_weights
\* header = np.fromfile(f, count=5, dtype=np.int32)
ReadHeaderWords(f) == SubSeq(f.words, 1, Min(HeaderCount, Len(f.words)))
\* Mutant: the payload is taken to start after four header words.
ReadPayload_FourWordHeader(f) == SubSeq(f.words, HeaderCount, Len(f.words))

\* weights = np.fromfile(f, dtype=np.float32)
ReadPayload(f) == SubSeq(f.words, HeaderCount + 1, Len(f.words))
\* Mutant: a major version above 5 is rejected.
Unpacks_VersionChecked(h) == Len(h) = HeaderCount /\ h[1] <= HeaderCount

\* Mutant: a header of fewer than five words is accepted.
Unpacks_Lenient(h) == Len(h) <= HeaderCount

\* major, minor, revision, seen, _ = header
Unpacks(h) == Len(h) = HeaderCount
\* Mutant: only a payload that is too short is rejected.
CountMismatch_TooFew(ms, w) == darknet_numel(ms) > Len(w)

\* darknet_numel(model) != len(weights)
CountMismatch(ms, w) == darknet_numel(ms) # Len(w)
\* Mutant: the flag is set without looking at the array.
Exhausted_Always(w) == TRUE

\* success = len(weights) == 0
Exhausted(w) == Len(w) = 0

Init ==
    /\ file \in Files
    /\ \E st \in Structures, v \in InitVals : model = NewModel(st, v)
    /\ model0 = model
    /\ pc = "NotStarted"
    /\ header = <<>>
    /\ weights = <<>>
    /\ idx = 0
    /\ success = FALSE
    /\ err = "none"
    /\ source = <<>>
    /\ first = <<>>

\* A file written from a model of the same structure as the one loaded into.
InitRoundTrip ==
    /\ \E st \in Structures, v \in InitVals, hb \in HeaderBases :
          /\ source = SourceModel(st)
          /\ file = WriteDarknet(source, hb)
          /\ model = NewModel(st, v)
    /\ model0 = model
    /\ pc = "NotStarted"
    /\ header = <<>>
    /\ weights = <<>>
    /\ idx = 0
    /\ success = FALSE
    /\ err = "none"
    /\ first = <<>>

\* Both arrays are read, then the header is unpacked.
ReadHeader ==
    /\ pc = "NotStarted"
    /\ header' = ReadHeaderWords(file)
    /\ weights' = ReadPayload(file)
    /\ IF Unpacks(header')
       THEN pc' = "HeaderConsumed" /\ err' = err
       ELSE pc' = "Failed" /\ err' = "unpack"
    /\ UNCHANGED <<file, model, model0, idx, success, source, first>>

\* if darknet_numel(model) != len(weights): raise ValueError(...)
CountCheck ==
    /\ pc = "HeaderConsumed"
    /\ IF CountMismatch(model, weights)
       THEN pc' = "Failed" /\ err' = "Unmatching number of weights" /\ idx' = idx
       ELSE pc' = "Distributing" /\ err' = err /\ idx' = 1
    /\ UNCHANGED <<file, model, model0, header, weights, success, source, first>>

\* Mutant: the loop does not move on to the next child.
WalkLayer_NoAdvance ==
    /\ pc = "Distributing"
    /\ idx <= Len(model)
    /\ LET r == load_child(weights, model[idx])
       IN  IF r.ok
           THEN /\ weights' = r.weights
                /\ model' = [model EXCEPT ![idx] = r.module]
                /\ idx' = idx
                /\ pc' = pc
                /\ err' = err
           ELSE /\ pc' = "Failed"
                /\ err' = "view_as"
                /\ model' = [model EXCEPT ![idx] = r.module]
                /\ UNCHANGED <<weights, idx>>
    /\ UNCHANGED <<file, model0, header, success, source, first>>

\* Mutant: while elements remain after the last child, the loop starts over
\* at the first child.
WalkLayer_Restart ==
    /\ pc = "Distributing"
    /\ idx <= Len(model)
    /\ LET r == load_child(weights, model[idx])
       IN  IF r.ok
           THEN /\ weights' = r.weights
                /\ model' = [model EXCEPT ![idx] = r.module]
                /\ idx' = IF idx = Len(model) /\ Len(r.weights) > 0
                          THEN 1 ELSE idx + 1
                /\ pc' = pc
                /\ err' = err
           ELSE /\ pc' = "Failed"
                /\ err' = "view_as"
                /\ model' = [model EXCEPT ![idx] = r.module]
                /\ UNCHANGED <<weights, idx>>
    /\ UNCHANGED <<file, model0, header, success, source, first>>

\* One iteration of the loop over the children.
WalkLayer ==
    /\ pc = "Distributing"
    /\ idx <= Len(model)
    /\ LET r == load_child(weights, model[idx])
       IN  IF r.ok
           THEN /\ weights' = r.weights
                /\ model' = [model EXCEPT ![idx] = r.module]
                /\ idx' = idx + 1
                /\ pc' = pc
                /\ err' = err
           ELSE /\ pc' = "Failed"
                /\ err' = "view_as"
                /\ model' = [model EXCEPT ![idx] = r.module]
                /\ UNCHANGED <<weights, idx>>
    /\ UNCHANGED <<file, model0, header, success, source, first>>

\* success = len(weights) == 0; return success
Finish ==
    /\ pc = "Distributing"
    /\ idx > Len(model)
    /\ success' = Exhausted(weights)
    /\ pc' = "Done"
    /\ UNCHANGED <<file, model, model0, header, weights, idx, err, source,
                   first>>

Next == ReadHeader \/ CountCheck \/ WalkLayer \/ Finish

Spec == Init /\ [][Next]_vars

\* The call is one synchronous pass: a step that can be taken is taken.
SpecFair == Spec /\ WF_vars(Next)

SpecRoundTrip == InitRoundTrip /\ [][Next]_vars

\* ------------------------------------------------ what the claims speak of
\* The payload length W.
W == Len(ReadPayload(file))
\* load_darknet_weights has raised or returned.
Terminal == pc \in {"Done", "Failed"}
\* The header was read whole and the count check has been decided.
CountChecked == pc \in {"Distributing", "Done", "Failed"} /\ Unpacks(header)
SizeMismatchError == pc = "Failed" /\ err = "Unmatching number of weights"
ShapeError == pc = "Failed" /\ err = "view_as"
HeaderError == pc = "Failed" /\ err = "unpack"
\* Child i holds some tensor that differs from its value before the call.
Written(i) == model[i] # model0[i]

\* elements l+1 .. l+n of sequence s
Block(s, l, n) == [j \in 1..n |-> s[l + j]]
Numel(m, n) == Len(m.data[n])

\* ------------------------------------------------------------------ claims

\* C1: if darknet_numel of the model differs from the payload length W, the
\* load fails with the count-mismatch error, no child has been processed and
\* every tensor of the model holds the value it had before the call.
CountMismatchLeavesModelUntouched ==
    (CountChecked /\ darknet_numel(model0) # W) =>
        /\ SizeMismatchError
        /\ idx = 0
        /\ \A i \in 1..Len(model) : \A n \in TensorNames :
              model[i].data[n] = model0[i].data[n]

\* A mismatching payload met a model with a convolution layer to write.
CountMismatchWitness ==
    /\ SizeMismatchError
    /\ W > 0
    /\ \E i \in 1..Len(model) :
          model[i].kind = "ConvLayer" /\ model[i].requires_grad # {}

\* The elements the count check expects, one triple per element: those of
\* every parameter that requires gradients and of every running statistic.
ExpectedElements ==
    UNION {{<<i, n, e>> : e \in 1..Len(model0[i].data[n])} :
             <<i, n>> \in {p \in (1..Len(model0)) \X TensorNames :
                              \/ p[2] \in StatNames
                              \/ p[2] \in model0[p[1]].requires_grad}}

\* C2: once the header is read, the load fails with the size-mismatch error
\* if and only if W differs from the number of elements of the parameters that
\* require gradients plus those of the running means and variances.
SizeMismatchIffCountDiffers ==
    CountChecked => (SizeMismatchError <=> W # Cardinality(ExpectedElements))

\* The count check passed on a model holding a frozen parameter.
SizeMatchWitness ==
    /\ CountChecked
    /\ ~SizeMismatchError
    /\ W > 0
    /\ \E i \in 1..Len(model) :
          /\ model[i].requires_grad = {}
          /\ Numel(model[i], "conv_weight") > 0

\* The loop has just processed child idx - 1 without raising.
Processed(i) == pc \in {"Distributing", "Done"} /\ i < idx /\ i >= 1

\* This step processes child idx, a convolution layer, to its end.
ConvStep(norm) ==
    /\ pc = "Distributing"
    /\ idx <= Len(model)
    /\ model[idx].kind = "ConvLayer"
    /\ model[idx].batch_norm = norm
    /\ idx' = idx + 1

\* C3: a normalized convolution layer reached with remaining array R ends
\* with its normalization bias equal to the first block of R, normalization
\* weight the second, running mean the third, running variance the fourth,
\* convolution weight the fifth; the remainder is R without these five
\* blocks, and the convolution bias is neither consumed nor written.
NormalizedLayerOrder ==
    [][ConvStep(TRUE) =>
        LET m == model[idx]
            R == weights
            b1 == Numel(m, "norm_bias")
            b2 == Numel(m, "norm_weight")
            b3 == Numel(m, "running_mean")
            b4 == Numel(m, "running_var")
            b5 == Numel(m, "conv_weight")
            after == model'[idx].data
        IN  /\ after["norm_bias"] = Block(R, 0, b1)
            /\ after["norm_weight"] = Block(R, b1, b2)
            /\ after["running_mean"] = Block(R, b1 + b2, b3)
            /\ after["running_var"] = Block(R, b1 + b2 + b3, b4)
            /\ after["conv_weight"] = Block(R, b1 + b2 + b3 + b4, b5)
            /\ after["conv_bias"] = m.data["conv_bias"]
            /\ after["other"] = m.data["other"]
            /\ Len(weights') = Len(R) - (b1 + b2 + b3 + b4 + b5)
            /\ weights' = Block(R, b1 + b2 + b3 + b4 + b5, Len(weights'))
    ]_vars

\* A normalized layer with a convolution bias of its own was processed and
\* left part of the array.
NormalizedLayerWitness ==
    \E i \in 1..Len(model) :
        /\ Processed(i)
        /\ idx = i + 1
        /\ model0[i].kind = "ConvLayer" /\ model0[i].batch_norm
        /\ Numel(model0[i], "conv_bias") > 0
        /\ Written(i)
        /\ Len(weights) > 0

\* C4: a plain convolution layer reached with remaining array R ends with its
\* convolution bias equal to the first bias_count elements of R and its
\* convolution weight equal to the next weight_count elements, and the
\* remainder is R without these bias_count + weight_count elements.
PlainLayerOrder ==
    [][ConvStep(FALSE) =>
        LET m == model[idx]
            R == weights
            bias_count == Numel(m, "conv_bias")
            weight_count == Numel(m, "conv_weight")
            after == model'[idx].data
        IN  /\ after["conv_bias"] = Block(R, 0, bias_count)
            /\ after["conv_weight"] = Block(R, bias_count, weight_count)
            /\ Len(weights') = Len(R) - (bias_count + weight_count)
            /\ weights' = Block(R, bias_count + weight_count, Len(weights'))
    ]_vars

\* A plain layer was processed as the second child and left part of the array.
PlainLayerWitness ==
    \E i \in 1..Len(model) :
        /\ Processed(i)
        /\ idx = i + 1
        /\ model0[i].kind = "ConvLayer" /\ ~model0[i].batch_norm
        /\ Written(i)
        /\ Len(weights) > 0
        /\ Len(weights) + Numel(model0[i], "conv_bias")
             + Numel(model0[i], "conv_weight") < W

\* C5: whenever load_darknet_weights returns, the returned flag is true if
\* and only if the remaining array is empty after the last child.
FlagIffArrayEmpty ==
    pc = "Done" => (idx = Len(model) + 1 /\ (success <=> Len(weights) = 0))

\* The load returned false with elements left over.
FlagFalseWitness ==
    pc = "Done" /\ ~success /\ Len(weights) > 0 /\ Len(weights) < W

\* The loop over a list of children, from child i on, as one computation.
RECURSIVE WalkFrom(_, _, _)
WalkFrom(ms, i, w) ==
    IF i > Len(ms) THEN [ok |-> TRUE, weights |-> w, modules |-> ms]
    ELSE LET r == load_child(w, ms[i])
         IN  IF r.ok
             THEN WalkFrom([ms EXCEPT ![i] = r.module], i + 1, r.weights)
             ELSE [ok |-> FALSE, weights |-> w, modules |-> ms]

IsConvKind(m) == m.kind = "ConvLayer"
\* The convolution layers among children 1..k of ms, in order.
ConvOnly(ms, k) == SelectSeq(SubSeq(ms, 1, k), IsConvKind)

\* C6: a child that is neither a plain nor a normalized convolution layer
\* consumes nothing and keeps all its tensors, and the children around it are
\* processed as if it were absent: after k children the remaining array and
\* the convolution layers are what the walk over the convolution layers
\* alone gives, and the walk raises only where that walk raises.
SkippedLayersAreAbsent ==
    (pc \in {"Distributing", "Done"} \/ ShapeError) =>
        LET k == idx - 1
            ref == WalkFrom(ConvOnly(model0, k), 1, ReadPayload(file))
        IN  /\ ref.ok
            /\ weights = ref.weights
            /\ ConvOnly(model, k) = ref.modules
            /\ \A i \in 1..Len(model) :
                  ~IsConvKind(model0[i]) => model[i] = model0[i]
            /\ ShapeError =>
                  /\ IsConvKind(model0[idx])
                  /\ ~WalkFrom(ConvOnly(model0, idx), 1, ReadPayload(file)).ok

\* A convolution layer was written after a child with parameters of its own
\* was skipped.
SkippedLayerWitness ==
    \E i, j \in 1..Len(model) :
        /\ i < j
        /\ Processed(j)
        /\ ~IsConvKind(model0[i])
        /\ Numel(model0[i], "other") > 0
        /\ IsConvKind(model0[j])
        /\ Written(j)

\* The tensors of child m that the format holds.
Carried(m) ==
    IF m.kind # "ConvLayer" THEN {}
    ELSE IF m.batch_norm
         THEN {"norm_bias", "norm_weight", "running_mean", "running_var",
               "conv_weight"}
         ELSE {"conv_bias", "conv_weight"}

\* C7 as stated, read in its favour (only the tensors the file holds are
\* compared): loading the file written from a model into a model of the same
\* structure ends with every such tensor equal to the one written.
RoundTripReproducesEveryModel ==
    Terminal =>
        \A i \in 1..Len(model) : \A n \in Carried(model0[i]) :
            model[i].data[n] = source[i].data[n]

\* C7, amended: when darknet_numel of the model equals the number of elements
\* the format holds for it, the load returns true with every tensor the
\* format holds equal to the one written and every other tensor as before
\* the call; otherwise it raises the count mismatch and writes nothing.
RoundTripWhenCountsAgree ==
    Terminal =>
        IF darknet_numel(model0) = Len(WritePayload(source, 1))
        THEN /\ pc = "Done"
             /\ success
             /\ \A i \in 1..Len(model) : \A n \in TensorNames :
                   model[i].data[n] = IF n \in Carried(model0[i])
                                      THEN source[i].data[n]
                                      ELSE model0[i].data[n]
        ELSE /\ SizeMismatchError
             /\ model = model0

\* A normalized and a plain layer were both read back from a written file.
RoundTripWitness ==
    /\ pc = "Done"
    /\ success
    /\ \E i, j \in 1..Len(model) :
          /\ model0[i].kind = "ConvLayer" /\ model0[i].batch_norm
          /\ model0[j].kind = "ConvLayer" /\ ~model0[j].batch_norm
          /\ Written(i) /\ Written(j)
          /\ model[i].data["conv_weight"] = source[i].data["conv_weight"]
          /\ model[j].data["conv_bias"] = source[j].data["conv_bias"]

\* The number of elements the walk needs for child m.
Demand(m) ==
    IF m.kind # "ConvLayer" THEN 0
    ELSE IF m.batch_norm
         THEN Numel(m, "norm_bias") + Numel(m, "norm_weight")
              + Numel(m, "running_mean") + Numel(m, "running_var")
              + Numel(m, "conv_weight")
         ELSE Numel(m, "conv_bias") + Numel(m, "conv_weight")

\* ... and for children 1..k.
RECURSIVE DemandUpTo(_)
DemandUpTo(k) == IF k = 0 THEN 0 ELSE DemandUpTo(k - 1) + Demand(model0[k])

TotalDemand == DemandUpTo(Len(model0))
\* The number of elements removed from the array so far.
Consumed == W - Len(weights)
CountPassed == CountChecked /\ ~SizeMismatchError

\* C8 as stated: once the count check has passed, the load does not fail.
NoErrorOnceCountPassed == CountPassed => pc # "Failed"

\* C8, amended: once the count check has passed, the load either returns,
\* which it does exactly when the convolution layers need at most W elements
\* in total, with the flag saying whether they need exactly W; or it raises
\* in the walk, at the first convolution layer that needs more elements than
\* remain, with the children before it processed and that child and the
\* later ones as before the call.
ReturnsOrRaisesAtShortfall ==
    CountPassed =>
        /\ pc = "Done" =>
              /\ TotalDemand <= W
              /\ success <=> TotalDemand = W
        /\ pc = "Failed" =>
              /\ ShapeError
              /\ idx \in 1..Len(model)
              /\ DemandUpTo(idx - 1) <= W
              /\ DemandUpTo(idx) > W
              /\ Demand(model0[idx]) > Len(weights)
              /\ \A j \in idx..Len(model) : model[j] = model0[j]
        /\ pc = "Distributing" => DemandUpTo(idx - 1) <= W

\* The walk raised at the second child after writing the first.
RaisedMidWalkWitness ==
    /\ ShapeError
    /\ idx = 2
    /\ Written(1)
    /\ \A j \in 2..Len(model) : ~Written(j)

\* C9 as stated: the elements consumed over the whole run number W exactly,
\* and a run that would consume fewer or needs more ends in an error.
ConsumedAllOrError ==
    (CountChecked /\ Terminal /\ Consumed # W) => pc = "Failed"

\* C9, amended: when the load returns true the elements consumed number W
\* exactly; a walk that needs more than W ends in an error raised in the
\* walk, having consumed what the children before the failing one need; a walk that needs fewer than W consumes what it needs and ends with
\* the load returning false, not with an error.
ConsumedAllOrFalseOrError ==
    (CountPassed /\ Terminal) =>
        CASE TotalDemand = W -> pc = "Done" /\ success /\ Consumed = W
          [] TotalDemand < W ->
                pc = "Done" /\ ~success /\ Consumed = TotalDemand
          [] OTHER ->
                ShapeError /\ Consumed = DemandUpTo(idx - 1) /\ Consumed <= W

\* The load returned false after a normalized layer with a convolution bias
\* of its own took its five blocks and left the rest.
LeftoverReturnsFalseWitness ==
    /\ pc = "Done"
    /\ ~success
    /\ Consumed > 0
    /\ Consumed < W
    /\ \E i \in 1..Len(model) :
          /\ model0[i].kind = "ConvLayer" /\ model0[i].batch_norm
          /\ Numel(model0[i], "conv_bias") > 0
          /\ Written(i)

\* C10: a file of fewer than 20 bytes makes the load fail when the header
\* is unpacked, before the count check and before any child is processed,
\* with every tensor as before the call.
ShortFileFailsAtHeader ==
    (file.nbytes < HeaderCount * WordBytes /\ pc # "NotStarted") =>
        /\ HeaderError
        /\ idx = 0
        /\ Len(header) < HeaderCount
        /\ weights = <<>>
        /\ model = model0

\* A file one byte short of a header met a model with a convolution layer.
ShortFileWitness ==
    /\ HeaderError
    /\ file.nbytes = HeaderCount * WordBytes - 1
    /\ Len(header) = HeaderCount - 1
    /\ \E i \in 1..Len(model) : model[i].kind = "ConvLayer"

\* What a call ends with: how it ended, the flag and the tensors.
Outcome == [pc |-> pc, err |-> err, success |-> success, model |-> model]

\* The outcome as a function of the model at entry and the payload alone.
PayloadOutcome(m0, p) ==
    IF darknet_numel(m0) # Len(p)
    THEN [pc |-> "Failed", err |-> "Unmatching number of weights",
          success |-> FALSE, model |-> m0]
    ELSE LET r == WalkFrom(m0, 1, p)
         IN  IF r.ok
             THEN [pc |-> "Done", err |-> "none",
                   success |-> Len(r.weights) = 0, model |-> r.modules]
             ELSE [pc |-> "Failed", err |-> "view_as",
                   success |-> FALSE, model |-> r.modules]

\* C11: the header is informational only. For a file with its five header
\* words, how the load ends, the flag and every tensor are determined by the
\* payload and the model at entry, whatever the header words are; so two
\* files with equal payloads and different headers end alike.
HeaderIsInformational ==
    (Terminal /\ Len(header) = HeaderCount) =>
        Outcome = PayloadOutcome(model0, ReadPayload(file))

\* A file whose header words are all above 50 was loaded into a convolution
\* layer and the load returned.
HeaderIsInformationalWitness ==
    /\ pc = "Done"
    /\ Len(header) = HeaderCount
    /\ \A k \in 1..HeaderCount : header[k] > 50
    /\ \E i \in 1..Len(model) : IsConvKind(model0[i]) /\ Written(i)

\* Children other than child i are the same before and after the step.
OnlyChildMayChange(i) ==
    \A j \in 1..Len(model) : j # i => model'[j] = model[j]

\* C12: the load only moves forward. From NotStarted to HeaderConsumed, from
\* there to Distributing at child 1, from child i to child i + 1 (touching
\* no other child), from past the last child to Done; any of the first three
\* may instead go to Failed; no step leaves Done or Failed, so nothing is
\* written after them, and no step goes back.
PhasesOnlyForward ==
    [][/\ ~Terminal
       /\ Len(model') = Len(model)
       /\ \/ /\ pc = "NotStarted"
             /\ pc' \in {"HeaderConsumed", "Failed"}
             /\ idx' = idx /\ model' = model
          \/ /\ pc = "HeaderConsumed"
             /\ \/ pc' = "Distributing" /\ idx' = 1
                \/ pc' = "Failed" /\ idx' = idx
             /\ model' = model
          \/ /\ pc = "Distributing"
             /\ idx <= Len(model)
             /\ \/ pc' = "Distributing" /\ idx' = idx + 1
                \/ pc' = "Failed" /\ idx' = idx
             /\ OnlyChildMayChange(idx)
          \/ /\ pc = "Distributing"
             /\ idx = Len(model) + 1
             /\ pc' = "Done"
             /\ idx' = idx /\ model' = model
    ]_vars

\* The load went through both children of a model, writing both, to Done.
PhasesWitness ==
    /\ pc = "Done"
    /\ Len(model) >= 2
    /\ idx = Len(model) + 1
    /\ Written(1) /\ Written(2)

\* The walk has begun: the loop is running, has returned or has raised.
InWalk == pc \in {"Distributing", "Done"} \/ ShapeError

\* At this point of the walk the remaining array is the payload without its
\* first DemandUpTo(idx - 1) elements, and the tensors of the children
\* processed so far, in traversal order and per-layer sub-order, are those
\* elements.
ArrayIsSuffix ==
    InWalk =>
        LET done == DemandUpTo(idx - 1)
            payload == ReadPayload(file)
        IN  /\ done + Len(weights) = W
            /\ weights = Block(payload, done, Len(weights))
            /\ WritePayload(SubSeq(model, 1, idx - 1), 1)
                 = Block(payload, 0, done)

\* C13: at every point of the walk the remaining array is a suffix of the
\* payload, consumed plus remaining length is W, the blocks written so far
\* concatenated in order equal the removed prefix, and no step of the walk
\* makes the remaining array longer.
ConsumedFromTheFront ==
    /\ []ArrayIsSuffix
    /\ [][pc = "Distributing" => Len(weights') <= Len(weights)]_vars

\* A normalized layer, then a plain layer were processed, and elements remain.
ConsumedFromTheFrontWitness ==
    /\ pc = "Distributing"
    /\ idx = 3
    /\ model0[1].kind = "ConvLayer" /\ model0[1].batch_norm
    /\ model0[2].kind = "ConvLayer" /\ ~model0[2].batch_norm
    /\ Written(1) /\ Written(2)
    /\ Len(weights) > 0

\* C14: every execution of the load terminates: it reaches Done (returning
\* a flag) or Failed (raising).
LoadTerminates == <>Terminal

\* The load returned after going through every child of a model of two.
LoadTerminatesWitness ==
    /\ pc = "Done"
    /\ Len(model) >= 2
    /\ idx = Len(model) + 1
    /\ W > 0

\* Child i holds, in every tensor the format holds for it, its block of the
\* payload, and in every other tensor the value from before the call.
FullyWritten(i) ==
    /\ IsConvKind(model0[i])
    /\ \A n \in TensorNames :
          /\ Numel(model[i], n) = Numel(model0[i], n)
          /\ n \notin Carried(model0[i]) =>
                model[i].data[n] = model0[i].data[n]
    /\ DemandUpTo(i) <= W
    /\ WriteLayer(model[i])
         = Block(ReadPayload(file), DemandUpTo(i - 1), Demand(model0[i]))

\* C15: no layer is ever left partially written: every child is either as
\* before the call or fully written. When the array runs short at child
\* idx the load fails with that child and every later one as before the
\* call and every convolution layer before it fully written.
NoLayerPartiallyWritten ==
    /\ \A i \in 1..Len(model) : model[i] = model0[i] \/ FullyWritten(i)
    /\ ShapeError =>
          /\ Len(weights) < Demand(model0[idx])
          /\ \A j \in idx..Len(model) : model[j] = model0[j]
          /\ \A j \in 1..(idx - 1) : IsConvKind(model0[j]) => FullyWritten(j)

\* The array ran short inside a normalized layer, the second child, after its
\* first slices could be taken, and the first child was written.
NoLayerPartiallyWrittenWitness ==
    /\ ShapeError
    /\ idx = 2
    /\ Written(1)
    /\ model0[2].kind = "ConvLayer" /\ model0[2].batch_norm
    /\ Len(weights) >= Numel(model0[2], "norm_bias")
                        + Numel(model0[2], "norm_weight")
    /\ model[2] = model0[2]

\* The first child at which the walk needs more than the payload holds.
FirstShort ==
    CHOOSE i \in 1..Len(model0) :
        DemandUpTo(i) > W /\ \A j \in 1..(i - 1) : DemandUpTo(j) <= W

\* C16: the count check and the walk cover different tensors. A payload that
\* passes the count check has as many elements as the gradient-requiring
\* parameters and running statistics of all modules; with C the number of
\* elements the direct-child convolution layers need, the load returns true
\* if C = W, returns false with every child that is no convolution layer
\* unchanged if C < W, and raises at the first child whose need exceeds the
\* remaining array if C > W.
CountAndWalkCoverDifferentSets ==
    CountPassed =>
        /\ W = Cardinality(ExpectedElements)
        /\ Terminal =>
              CASE TotalDemand = W -> pc = "Done" /\ success
                [] TotalDemand < W ->
                      /\ pc = "Done" /\ ~success
                      /\ \A i \in 1..Len(model) :
                            ~IsConvKind(model0[i]) => model[i] = model0[i]
                [] OTHER ->
                      /\ ShapeError
                      /\ idx = FirstShort
                      /\ Demand(model0[idx]) > Len(weights)

\* The count passed on the strength of a child the walk skips, a convolution
\* layer was written, and the load returned false.
CountAndWalkWitness ==
    /\ pc = "Done"
    /\ ~success
    /\ TotalDemand > 0
    /\ TotalDemand < W
    /\ \E i, j \in 1..Len(model) :
          /\ ~IsConvKind(model0[i]) /\ ModuleNumel(model0[i]) > 0
          /\ IsConvKind(model0[j]) /\ Written(j)

\* load_darknet_weights is called again with the same file on the model as
\* the first call left it; the first call's outcome is kept for comparison.
LoadAgain ==
    /\ Terminal
    /\ first = <<>>
    /\ first' = <<Outcome>>
    /\ pc' = "NotStarted"
    /\ header' = <<>>
    /\ weights' = <<>>
    /\ idx' = 0
    /\ success' = FALSE
    /\ err' = "none"
    /\ UNCHANGED <<file, model, model0, source>>

NextTwice == ReadHeader \/ CountCheck \/ WalkLayer \/ Finish \/ LoadAgain

SpecTwice == Init /\ [][NextTwice]_vars

\* The model ms with every tensor holding v instead.
Refill(ms, v) ==
    [i \in 1..Len(ms) |->
        [ms[i] EXCEPT !.data =
            [n \in TensorNames |-> Fill(Len(ms[i].data[n]), v)]]]

\* The outcome of one call as a function of the model at entry and the file.
FileOutcome(m0, f) ==
    IF Len(ReadHeaderWords(f)) # HeaderCount
    THEN [pc |-> "Failed", err |-> "unpack", success |-> FALSE, model |-> m0]
    ELSE PayloadOutcome(m0, ReadPayload(f))

\* C17: the load is idempotent and independent of the tensors' prior values:
\* a second call with the same file ends as the first did, with the same
\* value in every tensor; and a model of the same structure holding other
\* values ends the same way with the same value in every tensor the walk
\* writes (those the format holds for the children it processed).
LoadIsIdempotent ==
    Terminal =>
        /\ first # <<>> => Outcome = first[1]
        /\ \A v \in InitVals :
              LET o == FileOutcome(Refill(model0, v), file)
              IN  /\ o.pc = pc /\ o.err = err /\ o.success = success
                  /\ \A i \in 1..Len(model) :
                        (InWalk /\ i < idx) =>
                            \A n \in Carried(model0[i]) :
                                o.model[i].data[n] = model[i].data[n]

\* A second call returned after writing a normalized and a plain layer that
\* the first call had written.
LoadIsIdempotentWitness ==
    /\ pc = "Done"
    /\ first # <<>>
    /\ first[1].pc = "Done"
    /\ \E i, j \in 1..Len(model) :
          /\ model0[i].kind = "ConvLayer" /\ model0[i].batch_norm
          /\ model0[j].kind = "ConvLayer" /\ ~model0[j].batch_norm
          /\ Written(i) /\ Written(j)

====
